---- MODULE Spec2Model ----
(***************************************************************************)
(* A model of herbpy's motion execution layer (src/src/herbpy/herb.py):    *)
(* Herb.ExecuteTrajectory with its completion wait and status read,        *)
(* Herb.DriveStraightUntilForce with its polling loop and final stop,      *)
(* Herb.AddTrajectoryFlags, Herb.RetimeTrajectory, Herb.PlanGeneric, and   *)
(* the Segway methods DriveSegway, RotateSegway,                           *)
(* DriveSegwayToNamedPosition and StopSegway.                              *)
(* Each component has its own specification (SpecExec, SpecDrive,          *)
(* SpecFlags, SpecRetime, SpecSegway, SpecPlan); SpecOverlap runs two      *)
(* ExecuteTrajectory calls at once and SpecDriveFair is the drive loop     *)
(* under fairness.  The variables of the other components stay at their    *)
(* initial values.                                                         *)
(***************************************************************************)
EXTENDS Integers, Sequences, FiniteSets, TLC

VARIABLES
    \* ---- robot construction flags (initialize_herb) ----
    left_arm_sim, right_arm_sim, head_sim,   \* arm / head controllers simulated
    segway_sim,                              \* base simulated
    left_ft_sim, right_ft_sim,               \* force/torque sensors simulated
    mac_retimer,        \* the MacRetimer planner, or None when it is missing
    \* ---- ExecuteTrajectory ----
    status,             \* manipulator -> trajectory status
    execPc,             \* "idle" | "waiting" | "done"
    active_manipulators,\* manipulators touched by the trajectory (a sequence)
    timeout,            \* "Immediate" (0) | "Bounded" (> 0) | "Unbounded" (None)
    blend, retime,      \* options of the call
    running_controllers,\* manipulators whose controller the wait polls
    stale_fault,        \* a touched manipulator still held the fault of an
                        \* earlier call when this call cleared its status
    is_done,            \* what WaitForControllers returned
    execLog,            \* what the call did, in order
    execResult,         \* "none" | "returned" | name of the exception raised
    faultManip,         \* manipulator named by the exception, or "none"
    \* ---- DriveStraightUntilForce ----
    drivePc,            \* "idle" | "streaming" | "done"
    max_distance,       \* None or Some(distance)
    drive_timeout,      \* None or Some(duration)
    force_threshold,
    left_arm, right_arm,\* which sensors the caller asked for
    initial_force,      \* arm -> tared baseline: None or Some(force)
    force,              \* arm -> reading of the last poll: None or Some(force)
    start_pos, current_pos, \* position along direction at start / last poll
    elapsed,            \* time_now - start_time at the last poll
    baseLog,            \* what the call did before the loop, in order
    fwdSent,            \* a forward-velocity command has been sent
    fwdThisPoll,        \* the last loop iteration sent a forward command
    stopCount,          \* zero-velocity commands sent
    fwdAfterStop,       \* a forward command was sent after a stop command
    exitPoll,           \* how the loop was left: "none" | "contact" | ...
    driveResult,        \* "none" | "True" | "False" | "None" | exception name
    deprecatedResult,   \* what HERBRobot.DriveStraightUntilForce gives its
                        \* caller for the same call
    \* ---- AddTrajectoryFlags ----
    flagsPc,            \* "idle" | "done"
    flagsArgs,          \* the arguments of the last call
    input_traj,         \* the caller's trajectory object after the call
    annotated_traj,     \* its result: None or Some(annotated trajectory)
    \* ---- RetimeTrajectory ----
    retimePc,           \* "idle" | "done"
    retimeArgs,         \* the arguments of the last call
    mac_traj,           \* the MacTrajectory after the copy loop, or None
    params_str,         \* the parameters given to MacRetimer, or None
    retimed,            \* the trajectory returned, or None
    retimeResult,       \* "none" | "returned" | name of the exception raised
    \* ---- DriveSegway, RotateSegway, DriveSegwayToNamedPosition, StopSegway
    pose,               \* robot.GetTransform(): a 4x4 homogeneous transform
    posePrev,           \* the pose when the last call was made
    pose2,              \* the pose when the call before the last was made
    prevRot,            \* the angle of the call before the last, if it was
                        \* a RotateSegway: None or Some(angle)
    segOp,              \* the last call: "none" or the name of the method
    segArg,             \* its argument: None or Some(meters / angle / name)
    segTimeout,         \* its timeout: None or Some(seconds)
    segCmds,            \* what it sent to robot.segway_controller, in order
    segWaits,           \* the timeouts of its WaitForController calls
    segResult,          \* "none" | "returned" | name of the exception raised
    segPc,              \* "idle" | "waiting": a call is in WaitForController
    baseBusy,           \* the base controller is executing a command
    segWaited           \* how long the current wait has lasted

VARIABLES
    \* A second ExecuteTrajectory call, made while the first is in progress
    exec2Pc,            \* "idle" | "waiting" | "done"
    active2,            \* its active_manipulators
    timeout2,           \* its timeout
    running2,           \* its running_manipulators
    execLog2,           \* the calls it made, in order
    execResult2         \* what it returned or raised

VARIABLES
    \* Herb.PlanGeneric
    planPc,             \* "idle" | "done"
    planners,           \* for each planner of robot.planners, what its
                        \* planning method does
    planExecute,        \* the 'execute' keyword argument
    invoked,            \* indices of the planners whose method was called
    planResult,         \* what PlanGeneric returned or raised
    planExecuted        \* ExecuteTrajectory was called

simVars   == <<left_arm_sim, right_arm_sim, head_sim, segway_sim,
               left_ft_sim, right_ft_sim, mac_retimer>>
execVars  == <<status, execPc, active_manipulators, timeout, blend, retime,
               running_controllers, stale_fault, is_done, execLog, execResult, faultManip>>
driveVars == <<drivePc, max_distance, drive_timeout, force_threshold,
               left_arm, right_arm, initial_force, force, start_pos,
               current_pos, elapsed, baseLog, fwdSent, fwdThisPoll,
               stopCount, fwdAfterStop, exitPoll, driveResult,
               deprecatedResult>>
flagVars  == <<flagsPc, flagsArgs, input_traj, annotated_traj>>
retimeVars == <<retimePc, retimeArgs, mac_traj, params_str, retimed,
               retimeResult>>
overVars  == <<exec2Pc, active2, timeout2, running2, execLog2, execResult2>>
planVars  == <<planPc, planners, planExecute, invoked, planResult,
               planExecuted>>
moreVars  == <<overVars, planVars>>
segVars   == <<pose, posePrev, pose2, prevRot, segOp, segArg, segTimeout,
               segCmds, segWaits, segResult, segPc, baseBusy, segWaited>>
vars      == <<simVars, execVars, driveVars, flagVars, retimeVars, segVars, moreVars>>

\* Python's None, and a value that is not None.
None == <<>>

Some(v) == <<v>>

\* The value of an optional that is not None.
Val(o) == o[1]

(***************************************************************************)
(* The robot                                                               *)
(***************************************************************************)

\* robot.manipulators, in the order initialize_herb builds the list.
manipulators == <<"left", "right", "head">>

Manips == {manipulators[i] : i \in 1..Len(manipulators)}

\* The simulation flag of one manipulator.
simulated(m) ==
    CASE m = "left"  -> left_arm_sim
      [] m = "right" -> right_arm_sim
      [] m = "head"  -> head_sim

StatusValues == {"idle", "running", "done", "aborted", "stalled"}

\* initialize_herb's arguments: every component is simulated or real.
ArmSimInit ==
    /\ left_arm_sim \in BOOLEAN
    /\ right_arm_sim \in BOOLEAN
    /\ head_sim \in BOOLEAN

BaseSimInit ==
    /\ segway_sim \in BOOLEAN
    /\ left_ft_sim \in BOOLEAN
    /\ right_ft_sim \in BOOLEAN

\* initialize_herb's defaults (everything simulated), for the flags a
\* specification does not exercise.
ArmSimDefault ==
    /\ left_arm_sim = TRUE
    /\ right_arm_sim = TRUE
    /\ head_sim = TRUE

BaseSimDefault ==
    /\ segway_sim = TRUE
    /\ left_ft_sim = TRUE
    /\ right_ft_sim = TRUE

\* A robot whose base is simulated or real; the sensors at their default.
SegwaySimInit ==
    /\ segway_sim \in BOOLEAN
    /\ left_ft_sim = TRUE
    /\ right_ft_sim = TRUE

\* initialize_controllers: RaveCreatePlanner gives the planner, or None when
\* the plugin is not installed.
RetimerInit == mac_retimer \in {None, Some("MacRetimer")}

\* The retimer of a robot whose specification does not retime.
RetimerDefault == mac_retimer = Some("MacRetimer")

(***************************************************************************)
(* Helpers on sequences                                                    *)
(***************************************************************************)

Range(s) == {s[i] : i \in 1..Len(s)}

\* The subsequence of s whose elements are in S (order kept).
RECURSIVE Filter(_, _)
Filter(s, S) ==
    IF s = <<>> THEN <<>>
    ELSE IF Head(s) \in S THEN <<Head(s)>> \o Filter(Tail(s), S)
         ELSE Filter(Tail(s), S)

\* ---- Python's str and join ----
Digits == <<"0", "1", "2", "3", "4", "5", "6", "7", "8", "9">>

\* str(x) of a small non-negative integer.
Str(n) == Digits[n + 1]

\* int(b) of a bool.
BoolInt(b) == IF b THEN 1 ELSE 0

\* [ str(x) for x in v ]
StrAll(v) == [i \in 1..Len(v) |-> Str(v[i])]

\* ' '.join(tokens)
RECURSIVE Join(_)
Join(tokens) ==
    IF tokens = <<>> THEN ""
    ELSE IF Len(tokens) = 1 THEN tokens[1]
    ELSE tokens[1] \o " " \o Join(Tail(tokens))

(***************************************************************************)
(* Herb.ExecuteTrajectory                                                  *)
(***************************************************************************)

TimeoutValues == {"Immediate", "Bounded", "Unbounded"}

\* One entry of execLog: an operation and the manipulator it addresses.
Ev(op, m) == [op |-> op, m |-> m]

\* util.GetTrajectoryManipulators: the manipulators whose DOFs the
\* trajectory touches, listed in the order of robot.manipulators.
GetTrajectoryManipulators(touched) == Filter(manipulators, touched)

\* Synchronization asked for whenever anything is touched.
needs_synchronization_Any(active) == Len(active) > 0

needs_synchronization(active) == Len(active) > 1

any_sim == head_sim \/ right_arm_sim \/ left_arm_sim

all_sim == head_sim /\ right_arm_sim /\ left_arm_sim

\* The validation with its "not" lost.
SyncRejected_NoNot(active) ==
    needs_synchronization(active) /\ any_sim /\ all_sim

\* The condition under which SynchronizationException is raised.
SyncRejected(active) ==
    needs_synchronization(active) /\ any_sim /\ ~all_sim

\* The running set taken from the touched manipulators in both cases.
running_manipulators_TouchedOnly(active) == Range(active)

\* "Synchronization implicitly executes on all manipulators."
running_manipulators(active) ==
    IF needs_synchronization(active) THEN Manips ELSE Range(active)

\* One entry of execLog: a call on a retimer and the parameters it gets
\* besides the trajectory.
EvArgs(op, args) == [op |-> op, m |-> "none", args |-> args]

\* str(max_jerk) of the default max_jerk=30.0.
max_jerk == "30.0"

\* force_magnitude * numpy.array(force_direction)
Scaled(magnitude, direction) ==
    [i \in 1..Len(direction) |-> magnitude * direction[i]]

\* The list 'params' of RetimeTrajectory.
RetimeParams(stop_on_stall, stop_on_ft, fd, fm, tq, synchronize) ==
    <<"max_jerk", max_jerk>>
    \o (IF stop_on_stall THEN <<"cancel_on_stall">> ELSE <<>>)
    \o (IF stop_on_ft
        THEN <<"cancel_on_ft">>
             \o <<"force_threshold">> \o StrAll(Scaled(Val(fm), Val(fd)))
             \o <<"torque_threshold">> \o StrAll(Val(tq))
        ELSE <<>>)
    \o (IF synchronize THEN <<"synchronize">> ELSE <<>>)

\* The parameters as ExecuteTrajectory leaves them: RetimeTrajectory's
\* defaults stop_on_stall=True, stop_on_ft=False.
DefaultRetimeParams(synchronize) ==
    RetimeParams(TRUE, FALSE, None, None, None, synchronize)

\* RetimeTrajectory without its fallback branch.
RetimeCalls_NoFallback(mr, synchronize) ==
    <<EvArgs("mac_retimer.InitPlan", Join(DefaultRetimeParams(synchronize))),
      EvArgs("mac_retimer.PlanPath", "")>>

\* What RetimeTrajectory calls, as ExecuteTrajectory calls it (stop_on_stall
\* at its default): the plain OpenRAVE retimer with the trajectory alone
\* when there is no MacRetimer, the MacRetimer with the serialized
\* parameters otherwise.
RetimeCalls(mr, synchronize) ==
    IF mr = None
    THEN <<EvArgs("planningutils.RetimeTrajectory", "")>>
    ELSE <<EvArgs("mac_retimer.InitPlan", Join(DefaultRetimeParams(synchronize))),
           EvArgs("mac_retimer.PlanPath", "")>>

\* The dispatch without the loop that clears the old status.
DispatchLog_NoClear(active, b, r) ==
    (IF b THEN <<Ev("BlendTrajectory", "none")>> ELSE <<>>)
    \o (IF r THEN <<Ev("RetimeTrajectory", "none")>>
                  \o RetimeCalls(mac_retimer, needs_synchronization(active))
        ELSE <<>>)
    \o <<Ev("SetPath", "none")>>

\* Blend, retime, clear the old status of every active manipulator, SetPath:
\* what the call does between validation and the wait, in order.
DispatchLog(active, b, r) ==
    (IF b THEN <<Ev("BlendTrajectory", "none")>> ELSE <<>>)
    \o (IF r THEN <<Ev("RetimeTrajectory", "none")>>
                  \o RetimeCalls(mac_retimer, needs_synchronization(active))
        ELSE <<>>)
    \o [i \in 1..Len(active) |-> Ev("ClearTrajectoryStatus", active[i])]
    \o <<Ev("SetPath", "none")>>

\* manipulator.ClearTrajectoryStatus() for every active manipulator.
ClearTrajectoryStatus(st, active) ==
    [m \in Manips |-> IF m \in Range(active) THEN "idle" ELSE st[m]]

\* robot.GetController().SetPath(traj): the controllers of the touched
\* manipulators start executing.
SetPath(st, active) ==
    [m \in Manips |-> IF m \in Range(active) THEN "running" ELSE st[m]]

\* A controller is done when it is not executing a trajectory.
IsDone(st, m) == st[m] # "running"

\* util.WaitForControllers may return: at once for Immediate, at any time
\* for Bounded (all done, or the duration elapsed), and only when every
\* controller is done for Unbounded.
WaitCanReturn(running, to, st) ==
    to = "Unbounded" => \A m \in running : IsDone(st, m)

\* util.WaitForControllers' result: Immediate does not wait and reports
\* not-done; otherwise whether every controller finished.
WaitForControllers(running, to, st) ==
    IF to = "Immediate" THEN FALSE ELSE \A m \in running : IsDone(st, m)

\* manipulator.GetTrajectoryStatus()
GetTrajectoryStatus(st, m) == st[m]

\* The status loop without its 'aborted' branch.
RECURSIVE StatusLoop_NoAbort(_, _)
StatusLoop_NoAbort(active, st) ==
    IF active = <<>>
    THEN [result |-> "returned", manip |-> "none", log |-> <<>>]
    ELSE LET m == Head(active)
             e == <<[op |-> "GetTrajectoryStatus", m |-> m]>>
         IN  IF st[m] = "stalled"
             THEN [result |-> "TrajectoryStalled", manip |-> m, log |-> e]
             ELSE LET r == StatusLoop_NoAbort(Tail(active), st)
                  IN  [r EXCEPT !.log = e \o @]

\* The status loop without its 'stalled' branch.
RECURSIVE StatusLoop_NoStall(_, _)
StatusLoop_NoStall(active, st) ==
    IF active = <<>>
    THEN [result |-> "returned", manip |-> "none", log |-> <<>>]
    ELSE LET m == Head(active)
             e == <<[op |-> "GetTrajectoryStatus", m |-> m]>>
         IN  IF st[m] = "aborted"
             THEN [result |-> "TrajectoryAborted", manip |-> m, log |-> e]
             ELSE LET r == StatusLoop_NoStall(Tail(active), st)
                  IN  [r EXCEPT !.log = e \o @]

\* A status loop that reads every active manipulator before it raises for
\* the first faulty one.
StatusLoop_ReadsAll(active, st) ==
    LET reads == [i \in 1..Len(active) |-> Ev("GetTrajectoryStatus", active[i])]
        bad == {i \in 1..Len(active) : st[active[i]] \in {"aborted", "stalled"}}
    IN  IF bad = {}
        THEN [result |-> "returned", manip |-> "none", log |-> reads]
        ELSE LET k == CHOOSE i \in bad : \A j \in bad : i <= j
             IN  [result |-> IF st[active[k]] = "aborted"
                             THEN "TrajectoryAborted" ELSE "TrajectoryStalled",
                  manip |-> active[k], log |-> reads]

\* The status loop after the wait: the first active manipulator whose
\* status is aborted or stalled decides the exception; the loop reads no
\* manipulator after it.
RECURSIVE StatusLoop(_, _)
StatusLoop(active, st) ==
    IF active = <<>>
    THEN [result |-> "returned", manip |-> "none", log |-> <<>>]
    ELSE LET m == Head(active)
             s == GetTrajectoryStatus(st, m)
             e == <<Ev("GetTrajectoryStatus", m)>>
         IN  IF s = "aborted"
             THEN [result |-> "TrajectoryAborted", manip |-> m, log |-> e]
             ELSE IF s = "stalled"
             THEN [result |-> "TrajectoryStalled", manip |-> m, log |-> e]
             ELSE LET r == StatusLoop(Tail(active), st)
                  IN  [r EXCEPT !.log = e \o @]

\* "if is_done:" with the test inverted.
StatusChecked_Inverted(done) == ~done

\* The status loop run whatever the wait returned.
StatusChecked_Always(done) == TRUE

\* "if is_done:" guards the status loop.
StatusChecked(done) == done

\* What the call ends with once the wait has returned.
Completion(active, done, st) ==
    IF StatusChecked(done)
    THEN StatusLoop(active, st)
    ELSE [result |-> "returned", manip |-> "none", log |-> <<>>]

ExecInit ==
    /\ status = [m \in Manips |-> "idle"]
    /\ execPc = "idle"
    /\ active_manipulators = <<>>
    /\ timeout = "Unbounded"
    /\ blend = FALSE
    /\ retime = FALSE
    /\ running_controllers = {}
    /\ stale_fault = FALSE
    /\ is_done = FALSE
    /\ execLog = <<>>
    /\ execResult = "none"
    /\ faultManip = "none"

\* ExecuteTrajectory up to the wait: validation, blending and retiming,
\* status reset and SetPath; or the SynchronizationException.
ExecuteTrajectory(touched, to, b, r) ==
    LET active == GetTrajectoryManipulators(touched) IN
    /\ execPc = "idle"
    /\ active_manipulators' = active
    /\ timeout' = to
    /\ blend' = b
    /\ retime' = r
    /\ is_done' = FALSE
    /\ faultManip' = "none"
    /\ IF SyncRejected(active)
       THEN /\ execResult' = "SynchronizationException"
            /\ execLog' = <<>>
            /\ execPc' = "done"
            /\ running_controllers' = {}
            /\ stale_fault' = FALSE
            /\ UNCHANGED status
       ELSE /\ execResult' = "none"
            /\ execLog' = DispatchLog(active, b, r)
            /\ status' = SetPath(ClearTrajectoryStatus(status, active), active)
            /\ running_controllers' = running_manipulators(active)
            /\ stale_fault' = \E m \in Range(active) :
                                 GetTrajectoryStatus(status, m)
                                     \in {"aborted", "stalled"}
            /\ execPc' = "waiting"
    /\ UNCHANGED <<simVars, driveVars, flagVars, retimeVars, segVars, moreVars>>

\* The wait returns; the status of the active manipulators is read when
\* the wait reported done; the call returns the trajectory or raises.
ExecuteTrajectoryFinish ==
    /\ execPc = "waiting"
    /\ WaitCanReturn(running_controllers, timeout, status)
    /\ LET done == WaitForControllers(running_controllers, timeout, status)
           c == Completion(active_manipulators, done, status)
       IN  /\ is_done' = done
           /\ execResult' = c.result
           /\ faultManip' = c.manip
           /\ execLog' = execLog \o <<Ev("WaitForControllers", "none")>> \o c.log
    /\ execPc' = "done"
    /\ UNCHANGED <<status, active_manipulators, timeout, blend, retime,
                   running_controllers, stale_fault>>
    /\ UNCHANGED <<simVars, driveVars, flagVars, retimeVars, segVars, moreVars>>

\* The caller has the result (or the exception); the call's frame is gone.
ExecuteTrajectoryReturn ==
    /\ execPc = "done"
    /\ execPc' = "idle"
    /\ active_manipulators' = <<>>
    /\ timeout' = "Unbounded"
    /\ blend' = FALSE
    /\ retime' = FALSE
    /\ running_controllers' = {}
    /\ stale_fault' = FALSE
    /\ is_done' = FALSE
    /\ execLog' = <<>>
    /\ execResult' = "none"
    /\ faultManip' = "none"
    /\ UNCHANGED status
    /\ UNCHANGED <<simVars, driveVars, flagVars, retimeVars, segVars, moreVars>>

\* A hardware (or ideal) controller finishes its trajectory on its own:
\* normally, aborted or stalled.
ControllerStep(m, s) ==
    /\ status[m] = "running"
    /\ status' = [status EXCEPT ![m] = s]
    /\ UNCHANGED <<execPc, active_manipulators, timeout, blend, retime,
                   running_controllers, stale_fault, is_done, execLog, execResult, faultManip>>
    /\ UNCHANGED <<simVars, driveVars, flagVars, retimeVars, segVars, moreVars>>

NextExec ==
    \/ /\ execPc = "idle"
       /\ \E touched \in (SUBSET Manips) \ {{}}, to \in TimeoutValues,
             b \in BOOLEAN, r \in BOOLEAN :
               ExecuteTrajectory(touched, to, b, r)
    \/ ExecuteTrajectoryFinish
    \/ ExecuteTrajectoryReturn
    \/ \E m \in Manips, s \in {"done", "aborted", "stalled"} :
            ControllerStep(m, s)


(***************************************************************************)
(* Properties of ExecuteTrajectory                                         *)
(***************************************************************************)

\* The manipulators of a are several and do not all share one mode.
MixedTouched(a) ==
    /\ Len(a) > 1
    /\ \E m1 \in Range(a), m2 \in Range(a) : simulated(m1) # simulated(m2)

Faults == {"aborted", "stalled"}

\* The step in which the wait of ExecuteTrajectory returns.
WaitReturns == execPc = "waiting" /\ execPc' = "done"

HasEvent(log, op) == \E i \in 1..Len(log) : log[i].op = op

\* C1: a call whose trajectory touches several manipulators of differing
\* simulated/real mode ends at once with SynchronizationException, having
\* blended nothing, retimed nothing, cleared no status, issued no SetPath
\* and changed no manipulator's status.
C1_SyncErrorBeforeDispatch ==
    [][(execPc = "idle" /\ execPc' # "idle" /\ MixedTouched(active_manipulators'))
        => /\ execPc' = "done"
           /\ execResult' = "SynchronizationException"
           /\ execLog' = <<>>
           /\ status' = status]_vars

\* C1 witness: a rejected call that asked for blending and retiming, with a
\* touched manipulator still holding the aborted status of an earlier call.
C1_Witness ==
    /\ execPc = "done"
    /\ execResult = "SynchronizationException"
    /\ MixedTouched(active_manipulators)
    /\ blend /\ retime
    /\ execLog = <<>>
    /\ \E m \in Range(active_manipulators) : status[m] = "aborted"

C3_ImmediateNeverChecksStatus ==
    timeout = "Immediate" =>
        /\ execPc = "waiting" => ENABLED ExecuteTrajectoryFinish
        /\ execResult \notin {"TrajectoryAborted", "TrajectoryStalled"}
        /\ ~HasEvent(execLog, "GetTrajectoryStatus")
        /\ ~is_done

\* C3 witness: an Immediate call has returned the trajectory although a
\* touched manipulator is aborted and another controller is still running.
C3_Witness ==
    /\ execPc = "done"
    /\ timeout = "Immediate"
    /\ execResult = "returned"
    /\ HasEvent(execLog, "SetPath")
    /\ \E m \in Range(active_manipulators) : status[m] = "aborted"
    /\ \E m \in Range(active_manipulators) : status[m] = "running"

\* The step in which ExecuteTrajectory is called.
CallStarts == execPc = "idle" /\ execPc' # "idle"

\* The head, the right arm and the left arm are not all of one mode.
RobotMixed == \E m1 \in Manips, m2 \in Manips : simulated(m1) # simulated(m2)

\* C14 as claimed: a call whose trajectory touches one manipulator, or
\* several manipulators of one mode, is not rejected but dispatched,
\* whatever the mode of the manipulators it does not touch.
C14_RejectedOnlyWhenTouchedDisagree ==
    [][(CallStarts /\ ~MixedTouched(active_manipulators'))
        => /\ execResult' # "SynchronizationException"
           /\ execPc' = "waiting"
           /\ HasEvent(execLog', "SetPath")]_vars

\* C14 amended: a call is rejected with SynchronizationException exactly
\* when its trajectory touches more than one manipulator and the head, the
\* right arm and the left arm of the robot are not all of one mode, touched
\* or not; every other call is dispatched.
C14_RejectedIffRobotMixed ==
    [][CallStarts
        => /\ (execResult' = "SynchronizationException")
                <=> (Len(active_manipulators') > 1 /\ RobotMixed)
           /\ (execResult' # "SynchronizationException")
                => (execPc' = "waiting" /\ HasEvent(execLog', "SetPath"))]_vars

\* C14 witness: the two arms are touched and both simulated, the head is
\* real and not touched, and the call was rejected.
C14_Witness ==
    /\ execPc = "done"
    /\ active_manipulators = <<"left", "right">>
    /\ left_arm_sim /\ right_arm_sim /\ ~head_sim
    /\ execResult = "SynchronizationException"

IsCall(e, op, args) == e.op = op /\ e = EvArgs(op, args)

\* Position of the first entry of the log with this operation (0: none).
FirstEvent(log, op) ==
    IF HasEvent(log, op)
    THEN CHOOSE i \in 1..Len(log) :
            log[i].op = op /\ \A j \in 1..(i-1) : log[j].op # op
    ELSE 0

\* C16: a call that retimes on a robot without MacRetimer, and is not
\* rejected for synchronization, retimes with the plain OpenRAVE retimer
\* given the trajectory alone (no jerk limit, no stall, force or synchronize
\* flag), calls no MacRetimer, raises nothing on account of it, issues
\* SetPath after the retiming, waits, and ends as any other call does.
C16_FallbackRetimerStillDispatches ==
    (/\ execPc # "idle"
     /\ retime
     /\ mac_retimer = None
     /\ execResult # "SynchronizationException")
    => /\ \E i \in 1..Len(execLog) :
             IsCall(execLog[i], "planningutils.RetimeTrajectory", "")
       /\ ~HasEvent(execLog, "mac_retimer.InitPlan")
       /\ ~HasEvent(execLog, "mac_retimer.PlanPath")
       /\ FirstEvent(execLog, "planningutils.RetimeTrajectory")
            < FirstEvent(execLog, "SetPath")
       /\ \A m \in Range(active_manipulators) :
             \E i \in 1..Len(execLog) : execLog[i] = Ev("ClearTrajectoryStatus", m)
       /\ execPc = "done" => HasEvent(execLog, "WaitForControllers")
       /\ execResult \in {"none", "returned", "TrajectoryAborted",
                          "TrajectoryStalled"}
       /\ (execPc = "done" /\ is_done)
            => execResult = StatusLoop(active_manipulators, status).result

\* C16 witness: without MacRetimer, a retimed trajectory touching both arms
\* was dispatched, waited for and found aborted.
C16_Witness ==
    /\ execPc = "done"
    /\ retime
    /\ mac_retimer = None
    /\ Len(active_manipulators) > 1
    /\ HasEvent(execLog, "planningutils.RetimeTrajectory")
    /\ HasEvent(execLog, "SetPath")
    /\ is_done
    /\ execResult = "TrajectoryAborted"

\* The call has passed validation and handed the trajectory over.
Dispatched ==
    execPc \in {"waiting", "done"} /\ execResult # "SynchronizationException"

\* The position of the first event of an operation on a manipulator in a
\* log, 0 when there is none.
IndexOf(log, op, m) ==
    IF \E i \in 1..Len(log) : log[i] = Ev(op, m)
    THEN CHOOSE i \in 1..Len(log) :
            /\ log[i] = Ev(op, m)
            /\ \A j \in 1..(i-1) : log[j] # Ev(op, m)
    ELSE 0

\* C23 as claimed: the controllers the wait polls are those of the touched
\* manipulators, whether or not the execution is synchronized; no
\* controller of an untouched manipulator is waited on.
C23_RunningSetIsTouched ==
    Dispatched => running_controllers = Range(active_manipulators)

\* C23 amended: a call touching more than one manipulator waits on the
\* controllers of all of robot.manipulators, touched or not; a call
\* touching at most one waits on the touched ones only.  An Unbounded wait
\* cannot return while a controller of that set is running.
C23_RunningSetIsAllWhenSynchronized ==
    Dispatched =>
        /\ Len(active_manipulators) > 1 => running_controllers = Manips
        /\ Len(active_manipulators) <= 1
              => running_controllers = Range(active_manipulators)
        /\ (/\ execPc = "waiting"
            /\ timeout = "Unbounded"
            /\ \E m \in running_controllers : status[m] = "running")
              => ~ENABLED ExecuteTrajectoryFinish

\* C23 witness: an Unbounded call touching both arms is held up by the
\* head's controller alone, which the trajectory does not touch.
C23_Witness ==
    /\ execPc = "waiting"
    /\ timeout = "Unbounded"
    /\ active_manipulators = <<"left", "right">>
    /\ running_controllers = Manips
    /\ status["left"] = "done"
    /\ status["right"] = "done"
    /\ status["head"] = "running"
    /\ ~ENABLED ExecuteTrajectoryFinish

C25_StatusClearedBeforeSetPath ==
    [][(execPc = "idle" /\ execPc' = "waiting")
        => /\ \A m \in Range(active_manipulators') :
                /\ IndexOf(execLog', "ClearTrajectoryStatus", m) > 0
                /\ IndexOf(execLog', "ClearTrajectoryStatus", m)
                     < IndexOf(execLog', "SetPath", "none")
                /\ status'[m] \notin Faults
           /\ \A m \in Manips \ Range(active_manipulators') :
                status'[m] = status[m]]_vars

\* C25 witness: a touched manipulator held a fault when the call started,
\* and the call read every status after a completed wait and returned.
C25_Witness ==
    /\ execPc = "done"
    /\ stale_fault
    /\ is_done
    /\ execResult = "returned"
    /\ Len(active_manipulators) > 1
    /\ \A m \in Range(active_manipulators) :
          IndexOf(execLog, "GetTrajectoryStatus", m) > 0

\* C26: when a Bounded wait returns while a controller of the running set
\* is still executing, the call returns the trajectory: it raises nothing
\* and reads no status, whatever the touched manipulators report.
C26_BoundedTimeoutReturnsTrajectory ==
    [][(/\ WaitReturns
        /\ timeout = "Bounded"
        /\ \E m \in running_controllers : status[m] = "running")
        => /\ execResult' = "returned"
           /\ ~is_done'
           /\ ~HasEvent(execLog', "GetTrajectoryStatus")]_vars

\* C26 witness: a Bounded call returned the trajectory while one touched
\* controller was still running and another touched manipulator had
\* aborted.
C26_Witness ==
    /\ execPc = "done"
    /\ timeout = "Bounded"
    /\ execResult = "returned"
    /\ ~is_done
    /\ active_manipulators = <<"left", "right">>
    /\ status["left"] = "running"
    /\ status["right"] = "aborted"


(***************************************************************************)
(* Herb.DriveStraightUntilForce                                            *)
(***************************************************************************)

\* ---- bounds of the model ----
MaxForce == 2       \* sensor readings are 0..MaxForce
MaxPos == 3         \* positions along the direction are 0..MaxPos
MaxStart == 1       \* the base starts at 0..MaxStart
MaxTime == 1        \* elapsed times are 0..MaxTime

Arms == {"left", "right"}

Forces == 0..MaxForce

Abs(x) == IF x < 0 THEN -x ELSE x

DriveInit ==
    /\ drivePc = "idle"
    /\ max_distance = None
    /\ drive_timeout = None
    /\ force_threshold = 0
    /\ left_arm = FALSE
    /\ right_arm = FALSE
    /\ initial_force = [m \in Arms |-> None]
    /\ force = [m \in Arms |-> None]
    /\ start_pos = 0
    /\ current_pos = 0
    /\ elapsed = 0
    /\ baseLog = <<>>
    /\ fwdSent = FALSE
    /\ fwdThisPoll = FALSE
    /\ stopCount = 0
    /\ fwdAfterStop = FALSE
    /\ exitPoll = "none"
    /\ driveResult = "none"
    /\ deprecatedResult = "none"

\* The check of the base left out.
BaseSimulated_Never == FALSE

\* "if robot.segway_sim:" -- warn and return.
BaseSimulated == segway_sim

\* The sensor validation with "and" between the two sensors.
SensorSimulated_Both(la, ra) ==
    (left_ft_sim /\ la) /\ (right_ft_sim /\ ra)

\* "(robot.left_ft_sim and left_arm) or (robot.right_ft_sim and right_arm)"
SensorSimulated(la, ra) ==
    (left_ft_sim /\ la) \/ (right_ft_sim /\ ra)

\* The list 'manipulators' of the call: the arms whose sensor is monitored.
Monitored(la, ra) ==
    (IF la THEN <<"left">> ELSE <<>>) \o (IF ra THEN <<"right">> ELSE <<>>)

\* Soft tare: one GetForceTorque per monitored arm.
Tare(mons, rd) ==
    [m \in Arms |-> IF m \in Range(mons) THEN Some(rd[m]) ELSE None]

\* The tare of each monitored sensor before the base is rotated.
OrientAndTareLog_TareFirst(mons) ==
    [i \in 1..Len(mons) |-> Ev("GetForceTorque", mons[i])]
    \o <<Ev("Rotate", "none")>>

\* RotateSegway on the real base, then the tare of each monitored sensor.
OrientAndTareLog(mons) ==
    <<Ev("Rotate", "none")>>
    \o [i \in 1..Len(mons) |-> Ev("GetForceTorque", mons[i])]

\* The comparison without the norm: only a reading above the baseline.
ContactFelt_Signed(init, f, thr) == init - f > thr

\* "numpy.linalg.norm(initial_force[manipulator] - force) > force_threshold"
ContactFelt(init, f, thr) == Abs(init - f) > thr

\* The sensor loop of one iteration: the sensors are read in order and the
\* first reading beyond the threshold ends the call; later sensors are not
\* read.
RECURSIVE SensorLoop(_, _, _, _)
SensorLoop(mons, init, rd, thr) ==
    IF mons = <<>>
    THEN [felt |-> FALSE, read |-> {}]
    ELSE LET m == Head(mons)
         IN  IF ContactFelt(Val(init[m]), rd[m], thr)
             THEN [felt |-> TRUE, read |-> {m}]
             ELSE LET r == SensorLoop(Tail(mons), init, rd, thr)
                  IN  [r EXCEPT !.read = @ \cup {m}]

\* The distance limit never tested.
DistanceReached_Never(distance, md) == FALSE

\* The distance limit compared with ">".
DistanceReached_Strict(distance, md) == md # None /\ distance > Val(md)

\* "max_distance is not None and distance >= max_distance"
DistanceReached(distance, md) == md # None /\ distance >= Val(md)

\* "timeout is not None and time_now - star_time > timeout": star_time is
\* not a name of the function (the start is kept in start_time), so once
\* timeout is set the evaluation raises NameError, whatever the time is.
TimeoutCheck(to, t) == IF to = None THEN "continue" ELSE "NameError"

\* How one loop iteration ends, from the sensor readings rd, the position p
\* and the elapsed time t.
LoopExit(felt, p, t) ==
    IF felt THEN "contact"
    ELSE IF DistanceReached(p - start_pos, max_distance) THEN "distance"
    ELSE IF TimeoutCheck(drive_timeout, t) = "NameError" THEN "NameError"
    ELSE "none"

\* What the call returns or raises when the loop is left.
ExitResult(exit) ==
    CASE exit = "contact"   -> "True"
      [] exit = "distance"  -> "False"
      [] exit = "NameError" -> "NameError"

\* The stop as a last statement of the normal returns only.
FinallyStops_ReturnsOnly(exit) == exit # "NameError"

\* "finally:" -- the stop command is sent however the loop is left.
FinallyStops(exit) == TRUE

\* HERBRobot.DriveStraightUntilForce: the deprecated method calls
\* robot.base.DriveStraightUntilForce and has no return statement, so a
\* value the base method returns is dropped and the caller gets None; an
\* exception passes through.  r is what the base method gave ("none" while
\* it is still running).
DeprecatedDriveStraightUntilForce(r) ==
    IF r \in {"True", "False", "None"} THEN "None" ELSE r

\* The checks before the motion, then orienting and taring.  p0 is where the
\* base stands, rd what the sensors read at the tare.
DriveStraightUntilForce(md, to, thr, la, ra, p0, rd) ==
    /\ drivePc = "idle"
    /\ \A m \in Arms \ Range(Monitored(la, ra)) : rd[m] = 0  \* not read
    /\ max_distance' = md
    /\ drive_timeout' = to
    /\ force_threshold' = thr
    /\ left_arm' = la
    /\ right_arm' = ra
    /\ IF BaseSimulated
       THEN /\ driveResult' = "None"
            /\ drivePc' = "done"
            /\ UNCHANGED <<initial_force, start_pos, current_pos, baseLog>>
       ELSE IF SensorSimulated(la, ra)
       THEN /\ driveResult' = "Exception"
            /\ drivePc' = "done"
            /\ UNCHANGED <<initial_force, start_pos, current_pos, baseLog>>
       ELSE /\ driveResult' = "none"
            /\ drivePc' = "streaming"
            /\ baseLog' = OrientAndTareLog(Monitored(la, ra))
            /\ initial_force' = Tare(Monitored(la, ra), rd)
            /\ start_pos' = p0
            /\ current_pos' = p0
    /\ deprecatedResult' = DeprecatedDriveStraightUntilForce(driveResult')
    /\ UNCHANGED <<force, elapsed, fwdSent, fwdThisPoll, stopCount,
                   fwdAfterStop, exitPoll>>
    /\ UNCHANGED <<simVars, execVars, flagVars, retimeVars, segVars, moreVars>>

\* One iteration of the "while True" loop, with the "finally" clause when
\* the iteration leaves the loop.  rd is what the sensors read, p where the
\* base is and t the time since start_time.
DriveLoop(rd, p, t) ==
    /\ drivePc = "streaming"
    /\ \A m \in Arms \ Range(Monitored(left_arm, right_arm)) : rd[m] = 0  \* not read
    /\ p >= current_pos /\ (~fwdSent => p = current_pos)
    /\ t >= elapsed
    /\ LET sc == SensorLoop(Monitored(left_arm, right_arm), initial_force,
                            rd, force_threshold)
           exit == LoopExit(sc.felt, p, t)
       IN  /\ sc.felt => (p = current_pos /\ t = elapsed)    \* not read
           /\ exit = "distance" => t = elapsed               \* not read
           /\ force' = [m \in Arms |->
                          IF m \in sc.read THEN Some(rd[m]) ELSE force[m]]
           /\ current_pos' = IF sc.felt THEN current_pos ELSE p
           /\ elapsed' = IF exit \in {"contact", "distance"} THEN elapsed ELSE t
           /\ exitPoll' = exit
           /\ IF exit = "none"
              THEN /\ fwdSent' = TRUE
                   /\ fwdThisPoll' = TRUE
                   /\ fwdAfterStop' = (fwdAfterStop \/ stopCount > 0)
                   /\ UNCHANGED <<drivePc, stopCount, driveResult,
                                  deprecatedResult>>
              ELSE /\ driveResult' = ExitResult(exit)
                   /\ deprecatedResult' =
                        DeprecatedDriveStraightUntilForce(ExitResult(exit))
                   /\ drivePc' = "done"
                   /\ stopCount' = IF FinallyStops(exit)
                                   THEN stopCount + 1 ELSE stopCount
                   /\ fwdThisPoll' = FALSE
                   /\ UNCHANGED <<fwdSent, fwdAfterStop>>
    /\ UNCHANGED <<max_distance, drive_timeout, force_threshold, left_arm,
                   right_arm, initial_force, start_pos, baseLog>>
    /\ UNCHANGED <<simVars, execVars, flagVars, retimeVars, segVars, moreVars>>

\* The caller has the result (or the exception); the call's frame is gone.
DriveReturn ==
    /\ drivePc = "done"
    /\ drivePc' = "idle"
    /\ max_distance' = None
    /\ drive_timeout' = None
    /\ force_threshold' = 0
    /\ left_arm' = FALSE
    /\ right_arm' = FALSE
    /\ initial_force' = [m \in Arms |-> None]
    /\ force' = [m \in Arms |-> None]
    /\ start_pos' = 0
    /\ current_pos' = 0
    /\ elapsed' = 0
    /\ baseLog' = <<>>
    /\ fwdSent' = FALSE
    /\ fwdThisPoll' = FALSE
    /\ stopCount' = 0
    /\ fwdAfterStop' = FALSE
    /\ exitPoll' = "none"
    /\ driveResult' = "none"
    /\ deprecatedResult' = "none"
    /\ UNCHANGED <<simVars, execVars, flagVars, retimeVars, segVars, moreVars>>

\* What the sensors can read: a force for each monitored arm (the sensor of
\* an arm that is not monitored is not read).
Readings(la, ra) ==
    {[left |-> a, right |-> b] :
        a \in (IF la THEN Forces ELSE {0}), b \in (IF ra THEN Forces ELSE {0})}

\* None or a value of S.
Optional(S) == {None} \cup {Some(v) : v \in S}

NextDrive ==
    \/ /\ drivePc = "idle"
       /\ \E md \in Optional(0..(MaxPos - 1)), to \in Optional(0..(MaxTime - 1)),
             thr \in 0..(MaxForce - 1), la \in BOOLEAN, ra \in BOOLEAN,
             p0 \in 0..MaxStart :
               \E rd \in Readings(la, ra) :
                   DriveStraightUntilForce(md, to, thr, la, ra, p0, rd)
    \/ /\ drivePc = "streaming"
       /\ \E rd \in Readings(left_arm, right_arm),
             p \in current_pos..MaxPos, t \in elapsed..MaxTime :
               DriveLoop(rd, p, t)
    \/ DriveReturn

(***************************************************************************)
(* Properties of DriveStraightUntilForce                                   *)
(***************************************************************************)

\* The call got past its checks: it rotated the base and entered the loop.
EnteredStreaming == baseLog # <<>>

\* No sensor was read and no command was sent to the base.
NothingDone ==
    /\ baseLog = <<>>
    /\ \A m \in Arms : initial_force[m] = None /\ force[m] = None
    /\ ~fwdSent
    /\ stopCount = 0

\* The reading held for arm m differs from the baseline by more than the
\* threshold.
Exceeds(f, m) ==
    /\ f[m] # None
    /\ initial_force[m] # None
    /\ Abs(Val(initial_force[m]) - Val(f[m])) > force_threshold

MonitoredArms == Range(Monitored(left_arm, right_arm))

\* C4: while streaming no stop command has been sent; once the loop is
\* left, by contact, distance limit or the fault of the timeout check,
\* exactly one stop command has been sent, the iteration that left the loop
\* sent no forward command, and no forward command ever follows a stop.
C4_StopExactlyOnce ==
    /\ drivePc = "streaming" => stopCount = 0
    /\ (drivePc = "done" /\ EnteredStreaming) =>
          /\ exitPoll \in {"contact", "distance", "NameError"}
          /\ stopCount = 1
          /\ ~fwdThisPoll
    /\ ~fwdAfterStop

\* C4 witness: the loop was left by the fault raised inside it, and the
\* stop command was sent once.
C4_Witness ==
    /\ drivePc = "done"
    /\ EnteredStreaming
    /\ exitPoll = "NameError"
    /\ driveResult = "NameError"
    /\ stopCount = 1

\* C5: with max_distance = None and timeout = None, a loop iteration in
\* which a monitored sensor's reading differs from its baseline by more
\* than force_threshold ends the call with True and exactly one stop.
C5_ContactReturnsTrue ==
    [][(/\ drivePc = "streaming"
        /\ max_distance = None
        /\ drive_timeout = None
        /\ \E m \in MonitoredArms : Exceeds(force', m))
        => /\ drivePc' = "done"
           /\ driveResult' = "True"
           /\ stopCount' = 1
           /\ ~fwdThisPoll']_vars

\* C5 witness: after forward commands, the right sensor read below its
\* baseline by more than the threshold while the left one did not; the call
\* returned True with one stop.
C5_Witness ==
    /\ drivePc = "done"
    /\ max_distance = None
    /\ drive_timeout = None
    /\ left_arm /\ right_arm
    /\ fwdSent
    /\ ~Exceeds(force, "left")
    /\ Exceeds(force, "right")
    /\ Val(force["right"]) < Val(initial_force["right"])
    /\ driveResult = "True"
    /\ stopCount = 1

\* C6: with max_distance set, a loop iteration in which no monitored
\* reading exceeds the threshold and the distance from the start is at
\* least max_distance ends the call with False, exactly one stop and no
\* forward command (earlier iterations went on only below max_distance, so
\* this is the first such iteration).
C6_DistanceReturnsFalse ==
    [][(/\ drivePc = "streaming"
        /\ max_distance # None
        /\ \A m \in MonitoredArms : ~Exceeds(force', m)
        /\ current_pos' - start_pos >= Val(max_distance))
        => /\ drivePc' = "done"
           /\ driveResult' = "False"
           /\ stopCount' = 1
           /\ ~fwdThisPoll'
           /\ fwdSent' = fwdSent
           /\ ~fwdAfterStop']_vars

\* C6 witness: the base was driven forward, reached the distance limit
\* exactly, and the call returned False with one stop.
C6_Witness ==
    /\ drivePc = "done"
    /\ max_distance = Some(2)
    /\ drive_timeout = None
    /\ left_arm
    /\ fwdSent
    /\ current_pos - start_pos = 2
    /\ exitPoll = "distance"
    /\ driveResult = "False"
    /\ stopCount = 1

\* C7 as claimed: with timeout set, a loop iteration without contact and
\* below the distance limit in which the elapsed time exceeds timeout ends
\* the call with False.
C7_TimeoutReturnsFalse ==
    [][(/\ drivePc = "streaming"
        /\ drive_timeout # None
        /\ \A m \in MonitoredArms : ~Exceeds(force', m)
        /\ ~(max_distance # None /\ current_pos' - start_pos >= Val(max_distance))
        /\ elapsed' > Val(drive_timeout))
        => /\ drivePc' = "done"
           /\ driveResult' = "False"]_vars

\* C8: on a real base, a call that asks for a simulated sensor ends at once
\* with an exception: no rotate command, no baseline reading, no reading,
\* no forward command and no stop command.
C8_SimulatedSensorRejected ==
    (/\ drivePc # "idle"
     /\ ~segway_sim
     /\ (left_ft_sim /\ left_arm) \/ (right_ft_sim /\ right_arm))
    => /\ drivePc = "done"
       /\ driveResult = "Exception"
       /\ NothingDone

\* C8 witness: both sensors asked for, only the left one simulated.
C8_Witness ==
    /\ drivePc = "done"
    /\ ~segway_sim
    /\ left_arm /\ right_arm
    /\ left_ft_sim /\ ~right_ft_sim
    /\ driveResult = "Exception"

\* C9 as claimed: with a simulated base the call ends with a fault, and
\* nothing was sent or read.
C9_SimulatedBaseFaults ==
    (drivePc # "idle" /\ segway_sim)
    => /\ drivePc = "done"
       /\ driveResult \in {"Exception", "NameError"}
       /\ NothingDone

\* C9 amended: with a simulated base the call returns at once, normally and
\* with no result (None); nothing was sent to the base and no sensor read.
C9_SimulatedBaseReturnsNone ==
    (drivePc # "idle" /\ segway_sim)
    => /\ drivePc = "done"
       /\ driveResult = "None"
       /\ NothingDone

\* C9 witness: a simulated base, real sensors asked for, the call returned
\* None.
C9_Witness ==
    /\ drivePc = "done"
    /\ segway_sim
    /\ left_arm /\ right_arm
    /\ ~left_ft_sim /\ ~right_ft_sim
    /\ driveResult = "None"
    /\ NothingDone

\* C27: the base is rotated before any baseline is taken; exactly one
\* baseline is taken per requested sensor, and none for the other, before
\* the first forward command; while the loop streams, the baselines are
\* never updated.
C27_OrientTareStream ==
    [][/\ (drivePc = "idle" /\ drivePc' = "streaming")
          => /\ baseLog'[1] = Ev("Rotate", "none")
             /\ Len(baseLog') = 1 + Cardinality(MonitoredArms')
             /\ \A m \in Arms :
                  /\ Cardinality({i \in 2..Len(baseLog') :
                         baseLog'[i] = Ev("GetForceTorque", m)})
                       = IF m \in MonitoredArms' THEN 1 ELSE 0
                  /\ (initial_force'[m] # None) = (m \in MonitoredArms')
             /\ ~fwdSent' /\ stopCount' = 0
       /\ drivePc = "streaming"
          => /\ initial_force' = initial_force
             /\ baseLog' = baseLog]_vars

\* C27 witness: both sensors tared after the rotation, forward commands
\* streamed, and a sensor reads a force that differs from its baseline.
C27_Witness ==
    /\ drivePc = "streaming"
    /\ left_arm /\ right_arm
    /\ baseLog = <<Ev("Rotate", "none"), Ev("GetForceTorque", "left"),
                   Ev("GetForceTorque", "right")>>
    /\ fwdSent
    /\ force["left"] # None
    /\ force["left"] # initial_force["left"]

\* C29: the deprecated HERBRobot.DriveStraightUntilForce gives its caller
\* what base.DriveStraightUntilForce gives for the same arguments.
C29_DeprecatedReturnsSame ==
    drivePc = "done" => deprecatedResult = driveResult

\* The call has an exit condition that can hold: a monitored sensor can
\* read a force beyond the threshold, the distance limit is set and within
\* reach, or the timeout is set.
ExitConditionHolds ==
    \/ \E m \in MonitoredArms, f \in Forces :
            Abs(Val(initial_force[m]) - f) > force_threshold
    \/ max_distance # None /\ MaxPos - start_pos >= Val(max_distance)
    \/ drive_timeout # None

\* The call monitors no sensor and has neither distance limit nor timeout.
NoExitCondition ==
    /\ ~left_arm /\ ~right_arm
    /\ max_distance = None
    /\ drive_timeout = None

\* One iteration of the loop, and an iteration that leaves the loop.
DriveIteration ==
    \E rd \in Readings(left_arm, right_arm),
       p \in current_pos..MaxPos, t \in elapsed..MaxTime : DriveLoop(rd, p, t)

ExitingIteration == DriveIteration /\ drivePc' = "done"

\* The calls whose termination is explored: with and without a distance
\* limit, a timeout and the left sensor; the right sensor is not requested,
\* the threshold is the largest and the base starts at the origin.
NextDriveFair ==
    \/ /\ drivePc = "idle"
       /\ \E md \in {None, Some(MaxPos - 1)}, to \in Optional({0}),
             la \in BOOLEAN :
               \E rd \in Readings(la, FALSE) :
                   DriveStraightUntilForce(md, to, MaxForce - 1, la, FALSE, 0, rd)
    \/ DriveIteration
    \/ DriveReturn

\* C30: on a real base, a call whose exit condition holds eventually
\* returns or raises; a call with no sensor, no distance limit and no
\* timeout is not rejected, never leaves the loop, and every iteration
\* sends a forward command.
C30_ReturnsIffExitCondition ==
    /\ (drivePc = "streaming" /\ ExitConditionHolds) ~> (drivePc = "done")
    /\ [](drivePc = "done" => driveResult # "none")
    /\ []((~segway_sim /\ drivePc # "idle" /\ NoExitCondition)
            => drivePc = "streaming" /\ driveResult = "none" /\ stopCount = 0)
    /\ [][(drivePc = "streaming" /\ NoExitCondition)
            => drivePc' = "streaming" /\ fwdThisPoll']_vars
    /\ (drivePc = "streaming" /\ NoExitCondition) ~> fwdThisPoll

\* C30 witness: a call with no sensor, no distance limit and no timeout is
\* streaming forward commands with the base at the end of the floor.
C30_Witness ==
    /\ ~segway_sim
    /\ drivePc = "streaming"
    /\ NoExitCondition
    /\ fwdSent /\ fwdThisPoll
    /\ current_pos = MaxPos
    /\ elapsed = MaxTime
    /\ stopCount = 0


(***************************************************************************)
(* Herb.AddTrajectoryFlags                                                 *)
(***************************************************************************)

\* ---- bounds of the model ----
MaxComp == 1        \* vector components and magnitudes are 0..MaxComp
MaxWaypoints == 2   \* input trajectories have 0..MaxWaypoints waypoints

\* The dimension the force direction and the torque must have.
Dim == 3

\* Vectors of Dim-1 or Dim components.
Vectors == UNION {[1..n -> 0..MaxComp] : n \in (Dim - 1)..Dim}

\* Input trajectories: one joint_values column, 0..MaxWaypoints waypoints.
Trajectories ==
    {[spec |-> <<[name |-> "joint_values", dof |-> 1]>>, waypoints |-> w] :
        w \in UNION {[1..n -> {<<0>>, <<1>>}] : n \in 0..MaxWaypoints}}

FlagsInit ==
    /\ flagsPc = "idle"
    /\ flagsArgs = None
    /\ input_traj = None
    /\ annotated_traj = None

\* The square of the length of a vector.
RECURSIVE NormSq(_)
NormSq(v) == IF v = <<>> THEN 0 ELSE Head(v) * Head(v) + NormSq(Tail(v))

\* The validation without its last branch (the length of the torque).
FlagsValid_NoTorqueLen(fd, fm, tq) ==
    /\ fd # None
    /\ fm # None
    /\ tq # None
    /\ Len(Val(fd)) = Dim

\* The validation of the force/torque options under stop_on_ft: each
\* failure logs an error and returns None.  The length of force_direction
\* is not looked at.
FlagsValid(fd, fm, tq) ==
    /\ fd # None
    /\ fm # None
    /\ tq # None
    /\ Len(Val(fd)) = Dim
    /\ Len(Val(tq)) = Dim

\* The list 'flags' with the torque put before the force magnitude.
FlagTokens_TorqueFirst(sos, sof, fd, fm, tq) ==
    <<"or_owd_controller">>
    \o <<"stop_on_stall", Str(BoolInt(sos))>>
    \o <<"stop_on_ft", Str(BoolInt(sof))>>
    \o (IF sof
        THEN <<"force_direction">> \o StrAll(Val(fd))
             \o <<"torque">> \o StrAll(Val(tq))
             \o <<"force_magnitude", Str(Val(fm))>>
        ELSE <<>>)

\* The list 'flags'.
FlagTokens(sos, sof, fd, fm, tq) ==
    <<"or_owd_controller">>
    \o <<"stop_on_stall", Str(BoolInt(sos))>>
    \o <<"stop_on_ft", Str(BoolInt(sof))>>
    \o (IF sof
        THEN <<"force_direction">> \o StrAll(Val(fd))
             \o <<"force_magnitude", Str(Val(fm))>>
             \o <<"torque">> \o StrAll(Val(tq))
        ELSE <<>>)

\* traj.GetConfigurationSpecification(): a copy of the trajectory's
\* specification, which the caller of it may change freely.
GetConfigurationSpecification(traj) == traj.spec

\* config_spec.AddGroup(name, dof, 'next'): the group is put after the
\* groups the specification has.
AddGroup(config_spec, name, dof) ==
    config_spec \o <<[name |-> name, dof |-> dof]>>

\* config_spec.GetDOF(): the number of columns of a waypoint.
RECURSIVE GetDOF(_)
GetDOF(config_spec) ==
    IF config_spec = <<>> THEN 0
    ELSE Head(config_spec).dof + GetDOF(Tail(config_spec))

\* The waypoint copy with the slice at the wrong end (waypoint[1:] = ...).
AnnotatedWaypoint_Shifted(wp, dof) ==
    [j \in 1..dof |-> IF j >= 2 THEN wp[j - 1] ELSE 0]

\* waypoint = zeros(GetDOF()); waypoint[0:-1] = traj.GetWaypoint(i)
AnnotatedWaypoint(wp, dof) ==
    [j \in 1..dof |-> IF j <= dof - 1 THEN wp[j] ELSE 0]

\* The annotated trajectory: the input's groups plus one one-column group
\* named by the flag string; each waypoint with a zero in the new column.
Annotate(traj, flags_str) ==
    LET config_spec == AddGroup(GetConfigurationSpecification(traj), flags_str, 1)
    IN  [spec |-> config_spec,
         waypoints |-> [i \in 1..Len(traj.waypoints) |->
                          AnnotatedWaypoint(traj.waypoints[i], GetDOF(config_spec))]]

\* The caller's trajectory after the call: the specification was changed on
\* a copy and the waypoints were only read.
InputAfter(traj) ==
    [spec |-> traj.spec, waypoints |-> traj.waypoints]

\* What AddTrajectoryFlags returns.
AddTrajectoryFlagsResult(traj, sos, sof, fd, fm, tq) ==
    IF sof /\ ~FlagsValid(fd, fm, tq)
    THEN None
    ELSE Some(Annotate(traj, Join(FlagTokens(sos, sof, fd, fm, tq))))

AddTrajectoryFlags(traj, sos, sof, fd, fm, tq) ==
    /\ flagsPc = "idle"
    /\ flagsPc' = "done"
    /\ flagsArgs' = Some([traj |-> traj, stop_on_stall |-> sos,
                          stop_on_ft |-> sof, force_direction |-> fd,
                          force_magnitude |-> fm, torque |-> tq])
    /\ input_traj' = Some(InputAfter(traj))
    /\ annotated_traj' = AddTrajectoryFlagsResult(traj, sos, sof, fd, fm, tq)
    /\ UNCHANGED <<simVars, execVars, driveVars, retimeVars, segVars, moreVars>>

\* The caller has the result; the call's frame is gone.
FlagsReturn ==
    /\ flagsPc = "done"
    /\ flagsPc' = "idle"
    /\ flagsArgs' = None
    /\ input_traj' = None
    /\ annotated_traj' = None
    /\ UNCHANGED <<simVars, execVars, driveVars, retimeVars, segVars, moreVars>>

NextFlags ==
    \/ /\ flagsPc = "idle"
       /\ \E traj \in Trajectories, sos \in BOOLEAN, sof \in BOOLEAN,
             fd \in Optional(Vectors), fm \in Optional(0..MaxComp),
             tq \in Optional(Vectors) :
               AddTrajectoryFlags(traj, sos, sof, fd, fm, tq)
    \/ FlagsReturn

(***************************************************************************)
(* Properties of AddTrajectoryFlags                                        *)
(***************************************************************************)

\* C10 as claimed: a call with stop_on_ft set and a three-dimensional
\* force_direction that is not of unit length produces no trajectory.
C10_NonUnitDirectionRejected ==
    (/\ flagsPc = "done"
     /\ Val(flagsArgs).stop_on_ft
     /\ Val(flagsArgs).force_direction # None
     /\ Len(Val(Val(flagsArgs).force_direction)) = Dim
     /\ NormSq(Val(Val(flagsArgs).force_direction)) # 1)
    => annotated_traj = None

\* The force/torque options of a call are incomplete or of the wrong
\* dimension.
OptionsIncomplete(a) ==
    \/ a.force_direction = None
    \/ a.force_magnitude = None
    \/ a.torque = None
    \/ Len(Val(a.force_direction)) # Dim
    \/ Len(Val(a.torque)) # Dim

\* C11: a call with stop_on_ft set and force_direction, force_magnitude or
\* torque missing, or force_direction or torque not three-dimensional,
\* returns no trajectory; a call with stop_on_ft not set always returns a
\* trajectory, whatever these three parameters are.
C11_IncompleteOptionsRejected ==
    flagsPc = "done" =>
        LET a == Val(flagsArgs) IN
        /\ (a.stop_on_ft /\ OptionsIncomplete(a)) => annotated_traj = None
        /\ ~a.stop_on_ft => annotated_traj # None

\* C11 witness: stop_on_ft set, everything given, the torque of two
\* components only; no trajectory was returned.
C11_Witness ==
    /\ flagsPc = "done"
    /\ Val(flagsArgs).stop_on_ft
    /\ Val(flagsArgs).force_direction = Some(<<1, 0, 0>>)
    /\ Val(flagsArgs).force_magnitude = Some(1)
    /\ Val(flagsArgs).torque = Some(<<1, 1>>)
    /\ annotated_traj = None

\* C12: a call that returns a trajectory returns one with as many
\* waypoints as the input, in the same order, each the input waypoint in
\* the columns the input has plus one more column; its specification is the
\* input's plus one group of one column; the input trajectory is as it was.
C12_WaypointsKeptInputUnchanged ==
    (flagsPc = "done" /\ annotated_traj # None) =>
        LET src == Val(flagsArgs).traj
            dst == Val(annotated_traj)
        IN  /\ Len(dst.waypoints) = Len(src.waypoints)
            /\ \A i \in 1..Len(src.waypoints) :
                  /\ Len(dst.waypoints[i]) = Len(src.waypoints[i]) + 1
                  /\ SubSeq(dst.waypoints[i], 1, Len(src.waypoints[i]))
                        = src.waypoints[i]
            /\ Len(dst.spec) = Len(src.spec) + 1
            /\ SubSeq(dst.spec, 1, Len(src.spec)) = src.spec
            /\ dst.spec[Len(dst.spec)].dof = 1
            /\ input_traj = Some(src)

\* C12 witness: a trajectory of two different waypoints was annotated.
C12_Witness ==
    /\ flagsPc = "done"
    /\ annotated_traj # None
    /\ Val(flagsArgs).traj.waypoints = <<<<1>>, <<0>>>>
    /\ Val(annotated_traj).waypoints = <<<<1, 0>>, <<0, 0>>>>

\* The flag string as the claim words it: no token before stop_on_stall.
ClaimedFlagString(a) ==
    "stop_on_stall " \o Str(BoolInt(a.stop_on_stall))
    \o " stop_on_ft " \o Str(BoolInt(a.stop_on_ft))
    \o (IF a.stop_on_ft
        THEN LET d == Val(a.force_direction)
                 t == Val(a.torque)
             IN  " force_direction " \o Str(d[1]) \o " " \o Str(d[2])
                 \o " " \o Str(d[3])
                 \o " force_magnitude " \o Str(Val(a.force_magnitude))
                 \o " torque " \o Str(t[1]) \o " " \o Str(t[2])
                 \o " " \o Str(t[3])
        ELSE "")

\* The name of the group a call added.
AddedGroupName == Val(annotated_traj).spec[Len(Val(annotated_traj).spec)].name

\* C13 as claimed: the name of the added group is the flag string
\* 'stop_on_stall b stop_on_ft b', with the force/torque payload after it
\* when stop_on_ft is set, and no other token.
C13_GroupNameAsClaimed ==
    (flagsPc = "done" /\ annotated_traj # None) =>
        AddedGroupName = ClaimedFlagString(Val(flagsArgs))

\* C13 amended: the name of the added group is the token or_owd_controller,
\* a space, and then the flag string of the claim.
C13_GroupNameWithController ==
    (flagsPc = "done" /\ annotated_traj # None) =>
        AddedGroupName = "or_owd_controller " \o ClaimedFlagString(Val(flagsArgs))

\* C13 witness: a call with stop_on_ft set and a full payload returned a
\* trajectory.
C13_Witness ==
    /\ flagsPc = "done"
    /\ annotated_traj # None
    /\ Val(flagsArgs).stop_on_ft
    /\ ~Val(flagsArgs).stop_on_stall
    /\ Val(flagsArgs).force_direction = Some(<<0, 0, 1>>)
    /\ Val(flagsArgs).torque = Some(<<1, 0, 0>>)
    /\ AddedGroupName =
         "or_owd_controller stop_on_stall 0 stop_on_ft 1 force_direction 0 0 1 force_magnitude 1 torque 1 0 0"

(***************************************************************************)
(* Herb.RetimeTrajectory                                                   *)
(***************************************************************************)

\* ---- bounds of the model ----
MaxPoints == 2      \* input trajectories have 0..MaxPoints waypoints
MaxDelta == 1       \* a retimer gives each waypoint a deltatime 0..MaxDelta

Group(name, dof) == [name |-> name, dof |-> dof]

\* The specifications of the input trajectories: the joint values alone, or
\* with the blend radius BlendTrajectory appends.
InputSpecs ==
    { <<Group("joint_values", 1)>>,
      <<Group("joint_values", 1), Group("owd_blend_radius", 1)>> }

RetimeInputs ==
    UNION {{[spec |-> sp, waypoints |-> w] :
              w \in UNION {[1..n -> [1..GetDOF(sp) -> 0..1]] : n \in 0..MaxPoints}} :
           sp \in InputSpecs}

RetimeInit ==
    /\ retimePc = "idle"
    /\ retimeArgs = None
    /\ mac_traj = None
    /\ params_str = None
    /\ retimed = None
    /\ retimeResult = "none"

HasGroup(config_spec, name) ==
    \E g \in 1..Len(config_spec) : config_spec[g].name = name

\* generic_config_spec.GetGroupFromName(name)
GetGroupFromName(config_spec, name) ==
    config_spec[CHOOSE g \in 1..Len(config_spec) : config_spec[g].name = name]

\* The offset of a group: the columns of the groups before it.
RECURSIVE GroupOffset(_, _)
GroupOffset(config_spec, name) ==
    IF Head(config_spec).name = name THEN 0
    ELSE Head(config_spec).dof + GroupOffset(Tail(config_spec), name)

\* path_config_spec: deltatime, the joint values, their first and second
\* derivatives, and the blend radius.
path_config_spec(traj) ==
    LET generic_angle_group == GetGroupFromName(traj.spec, "joint_values")
    IN  << Group("deltatime", 1),
           Group(generic_angle_group.name, generic_angle_group.dof),
           Group("joint_velocities", generic_angle_group.dof),
           Group("joint_accelerations", generic_angle_group.dof),
           Group("owd_blend_radius", 1) >>

\* traj.GetWaypoint(i, spec): the waypoint converted to another
\* specification: the groups the source has are copied, the others zero.
RECURSIVE GetWaypoint(_, _, _)
GetWaypoint(wp, from, to) ==
    IF to = <<>> THEN <<>>
    ELSE LET g == Head(to)
             cols == IF HasGroup(from, g.name)
                     THEN SubSeq(wp, GroupOffset(from, g.name) + 1,
                                 GroupOffset(from, g.name) + g.dof)
                     ELSE [j \in 1..g.dof |-> 0]
         IN  cols \o GetWaypoint(wp, from, Tail(to))

\* The copy loop stopping one waypoint short.
num_waypoints_OneShort(traj) ==
    IF Len(traj.waypoints) > 0 THEN Len(traj.waypoints) - 1 ELSE 0

\* num_waypoints = traj.GetNumWaypoints()
num_waypoints(traj) == Len(traj.waypoints)

\* The MacTrajectory after the copy loop.
CopyToMacTrajectory(traj) ==
    [spec |-> path_config_spec(traj),
     waypoints |-> [i \in 1..num_waypoints(traj) |->
                      GetWaypoint(traj.waypoints[i], traj.spec,
                                  path_config_spec(traj))]]

\* mac_retimer.PlanPath(mac_traj): the retimer times the trajectory in
\* place; it keeps the waypoints and gives each a deltatime that is not
\* negative.
PlanPath(mt, dts) ==
    [spec |-> mt.spec,
     waypoints |-> [i \in 1..Len(mt.waypoints) |->
        [j \in 1..GetDOF(mt.spec) |->
            IF j = GroupOffset(mt.spec, "deltatime") + 1
            THEN dts[i] ELSE mt.waypoints[i][j]]]]

\* openravepy.planningutils.RetimeTrajectory(traj): the plain retimer times
\* the trajectory in place: a deltatime column is added to every waypoint.
PlainRetimeTrajectory(traj, dts) ==
    [spec |-> traj.spec \o <<Group("deltatime", 1)>>,
     waypoints |-> [i \in 1..Len(traj.waypoints) |->
                      traj.waypoints[i] \o <<dts[i]>>]]

\* Serializing the parameters fails: with stop_on_ft set, a missing
\* force_magnitude, force_direction or torque is None in arithmetic or in
\* map(str, ...).
ParamsTypeError(stop_on_ft, fd, fm, tq) ==
    stop_on_ft /\ (fd = None \/ fm = None \/ tq = None)

RetimeTrajectory(traj, synchronize, stop_on_stall, stop_on_ft, fd, fm, tq, dts) ==
    /\ retimePc = "idle"
    /\ retimePc' = "done"
    /\ retimeArgs' = Some([traj |-> traj, synchronize |-> synchronize,
                           stop_on_stall |-> stop_on_stall,
                           stop_on_ft |-> stop_on_ft, force_direction |-> fd,
                           force_magnitude |-> fm, torque |-> tq])
    /\ IF mac_retimer = None
       THEN /\ mac_traj' = None
            /\ params_str' = None
            /\ retimed' = Some(PlainRetimeTrajectory(traj, dts))
            /\ retimeResult' = "returned"
       ELSE /\ mac_traj' = Some(CopyToMacTrajectory(traj))
            /\ IF ParamsTypeError(stop_on_ft, fd, fm, tq)
               THEN /\ params_str' = None
                    /\ retimed' = None
                    /\ retimeResult' = "TypeError"
               ELSE /\ params_str' = Some(Join(RetimeParams(stop_on_stall,
                                        stop_on_ft, fd, fm, tq, synchronize)))
                    /\ retimed' = Some(PlanPath(CopyToMacTrajectory(traj), dts))
                    /\ retimeResult' = "returned"
    /\ UNCHANGED <<simVars, execVars, driveVars, flagVars, segVars, moreVars>>

\* The caller has the result (or the exception); the call's frame is gone.
RetimeReturn ==
    /\ retimePc = "done"
    /\ retimePc' = "idle"
    /\ retimeArgs' = None
    /\ mac_traj' = None
    /\ params_str' = None
    /\ retimed' = None
    /\ retimeResult' = "none"
    /\ UNCHANGED <<simVars, execVars, driveVars, flagVars, segVars, moreVars>>

NextRetime ==
    \/ /\ retimePc = "idle"
       /\ \E traj \in RetimeInputs, synchronize \in BOOLEAN,
             stop_on_stall \in BOOLEAN, stop_on_ft \in BOOLEAN,
             fd \in Optional({<<0, 0, 1>>}), fm \in Optional({2}),
             tq \in Optional({<<1, 1, 1>>}) :
            \E dts \in [1..Len(traj.waypoints) -> 0..MaxDelta] :
               RetimeTrajectory(traj, synchronize, stop_on_stall, stop_on_ft,
                                fd, fm, tq, dts)
    \/ RetimeReturn

(***************************************************************************)
(* Properties of RetimeTrajectory                                          *)
(***************************************************************************)

\* The columns of a group in waypoint i of a trajectory.
GroupValues(traj, i, name) ==
    SubSeq(traj.waypoints[i], GroupOffset(traj.spec, name) + 1,
           GroupOffset(traj.spec, name) + GetGroupFromName(traj.spec, name).dof)

\* The time of waypoint i: the sum of the deltatimes up to it.
RECURSIVE CumulativeTime(_, _)
CumulativeTime(traj, i) ==
    IF i = 0 THEN 0
    ELSE CumulativeTime(traj, i - 1) + GroupValues(traj, i, "deltatime")[1]

MaxCoord == 1       \* the base stays within -MaxCoord..MaxCoord in x and y
MaxMeters == 1      \* distances asked for are -MaxMeters..MaxMeters
MaxTurns == 2       \* angles asked for are -MaxTurns..MaxTurns quarter turns
MaxWait == 1        \* timeouts asked for are None or 0..MaxWait

\* numpy.cos and numpy.sin of an angle of k quarter turns.
Cos(k) == CASE k % 4 = 0 -> 1 [] k % 4 = 1 -> 0 [] k % 4 = 2 -> -1 [] k % 4 = 3 -> 0

Sin(k) == CASE k % 4 = 0 -> 0 [] k % 4 = 1 -> 1 [] k % 4 = 2 -> 0 [] k % 4 = 3 -> -1

\* The rotation with the sign of the sine lost in the first row.
Rz_SignLost(k) ==
    << <<Cos(k), Sin(k), 0, 0>>,
       <<Sin(k), Cos(k), 0, 0>>,
       <<0, 0, 1, 0>>,
       <<0, 0, 0, 1>> >>

\* desired_pose_in_herb: the rotation by the angle about the vertical axis.
Rz(k) ==
    << <<Cos(k), -Sin(k), 0, 0>>,
       <<Sin(k), Cos(k), 0, 0>>,
       <<0, 0, 1, 0>>,
       <<0, 0, 0, 1>> >>

\* numpy.dot of two 4x4 matrices.
Dot(A, B) ==
    [i \in 1..4 |-> [j \in 1..4 |->
        A[i][1] * B[1][j] + A[i][2] * B[2][j]
        + A[i][3] * B[3][j] + A[i][4] * B[4][j]]]

\* current_pose[0:3,3] = current_pose[0:3,3] + meters*current_pose[0:3,0]
Translated(P, meters) ==
    [i \in 1..4 |-> [j \in 1..4 |->
        IF i <= 3 /\ j = 4 THEN P[i][4] + meters * P[i][1] ELSE P[i][j]]]

\* The pose of a base at (x, y) turned by k quarter turns.
PoseAt(x, y, k) ==
    << <<Cos(k), -Sin(k), 0, x>>,
       <<Sin(k), Cos(k), 0, y>>,
       <<0, 0, 1, 0>>,
       <<0, 0, 0, 1>> >>

Coords == (-MaxCoord)..MaxCoord

InBounds(P) == P[1][4] \in Coords /\ P[2][4] \in Coords

\* str(x) of a small integer.
StrInt(n) == IF n < 0 THEN "-" \o Str(-n) ELSE Str(n)

named_positions == {"kitchen", "table"}

\* No call of the four methods made yet.
NoSegwayCall ==
    /\ posePrev = pose
    /\ pose2 = pose
    /\ prevRot = None
    /\ segOp = "none"
    /\ segArg = None
    /\ segTimeout = None
    /\ segCmds = <<>>
    /\ segWaits = <<>>
    /\ segResult = "none"
    /\ segPc = "idle"
    /\ baseBusy = FALSE
    /\ segWaited = 0

\* The base anywhere within the bounds, at any quarter turn.
SegwayInit ==
    /\ pose \in {PoseAt(x, y, k) : x \in Coords, y \in Coords, k \in 0..3}
    /\ NoSegwayCall

\* The base at the origin, for the specifications that do not move it.
SegwayDefault ==
    /\ pose = PoseAt(0, 0, 0)
    /\ NoSegwayCall

\* A base command sent whether the base is simulated or not.
BaseCommands_Always(sim, command) == <<command>>

\* What a method sends to robot.segway_controller: its command on a real
\* base, nothing on a simulated one.
BaseCommands(sim, command) == IF sim THEN <<>> ELSE <<command>>

\* The waits with no wait for an absent timeout.
BaseWaits_NoneDoesNotWait(sim, to) ==
    IF sim \/ to = None THEN <<>>
    ELSE IF Val(to) > 0 THEN <<Val(to)>>
    ELSE <<>>

\* The waits of DriveSegway and RotateSegway on a real base: None waits
\* with WaitForController(0), a positive timeout with
\* WaitForController(timeout), zero does not wait.
BaseWaits(sim, to) ==
    IF sim THEN <<>>
    ELSE IF to = None THEN <<0>>
    ELSE IF Val(to) > 0 THEN <<Val(to)>>
    ELSE <<>>

\* What every call of the four methods records of the call before it.
SegwayHistory(op, arg, to) ==
    /\ posePrev' = pose
    /\ pose2' = posePrev
    /\ prevRot' = IF segOp = "RotateSegway" THEN segArg ELSE None
    /\ segOp' = op
    /\ segArg' = Some(arg)
    /\ segTimeout' = to

\* A command sent to the base controller starts it.
BaseStarted(cmds) == IF cmds = <<>> THEN baseBusy ELSE TRUE

\* After its command the call either returns or is suspended in
\* robot.WaitForController.
EnterWait(waits) ==
    /\ segPc' = IF waits = <<>> THEN "idle" ELSE "waiting"
    /\ segResult' = IF waits = <<>> THEN "returned" ELSE "none"
    /\ segWaited' = 0

DriveSegway(meters, to) ==
    /\ segPc = "idle"
    /\ InBounds(Translated(pose, meters))
    /\ SegwayHistory("DriveSegway", meters, to)
    /\ segCmds' = BaseCommands(segway_sim, "Drive " \o StrInt(meters))
    /\ segWaits' = BaseWaits(segway_sim, to)
    /\ pose' = IF segway_sim THEN Translated(pose, meters) ELSE pose
    /\ baseBusy' = BaseStarted(segCmds')
    /\ EnterWait(segWaits')
    /\ UNCHANGED <<simVars, execVars, driveVars, flagVars, retimeVars, moreVars>>

RotateSegway(angle_rad, to) ==
    /\ segPc = "idle"
    /\ SegwayHistory("RotateSegway", angle_rad, to)
    /\ segCmds' = BaseCommands(segway_sim, "Rotate " \o StrInt(angle_rad))
    /\ segWaits' = BaseWaits(segway_sim, to)
    /\ pose' = IF segway_sim THEN Dot(pose, Rz(angle_rad)) ELSE pose
    /\ baseBusy' = BaseStarted(segCmds')
    /\ EnterWait(segWaits')
    /\ UNCHANGED <<simVars, execVars, driveVars, flagVars, retimeVars, moreVars>>

\* logger.warm is not a method of logging.Logger: on a simulated base the
\* call ends with AttributeError.
DriveSegwayToNamedPosition(named_position) ==
    /\ segPc = "idle"
    /\ SegwayHistory("DriveSegwayToNamedPosition", named_position, None)
    /\ segCmds' = BaseCommands(segway_sim, "Goto " \o named_position)
    /\ segWaits' = <<>>
    /\ pose' = pose
    /\ baseBusy' = BaseStarted(segCmds')
    /\ UNCHANGED <<segPc, segWaited>>
    /\ segResult' = IF segway_sim THEN "AttributeError" ELSE "returned"
    /\ UNCHANGED <<simVars, execVars, driveVars, flagVars, retimeVars, moreVars>>

StopSegway ==
    /\ segPc = "idle"
    /\ SegwayHistory("StopSegway", "", None)
    /\ segCmds' = BaseCommands(segway_sim, "Stop")
    /\ segWaits' = <<>>
    /\ pose' = pose
    /\ segResult' = "returned"
    /\ baseBusy' = IF segCmds' = <<>> THEN baseBusy ELSE FALSE
    /\ UNCHANGED <<segPc, segWaited>>
    /\ UNCHANGED <<simVars, execVars, driveVars, flagVars, retimeVars, moreVars>>

\* What only the wait and the base controller leave alone.
SegwayCallUnchanged ==
    UNCHANGED <<pose, posePrev, pose2, prevRot, segOp, segArg, segTimeout,
                segCmds, segWaits>>

\* The base controller finishes the command it is executing.
BaseCompletes ==
    /\ baseBusy
    /\ baseBusy' = FALSE
    /\ SegwayCallUnchanged
    /\ UNCHANGED <<segPc, segResult, segWaited>>
    /\ UNCHANGED <<simVars, execVars, driveVars, flagVars, retimeVars, moreVars>>

\* robot.WaitForController(timeout) with timeout > 0: time passes while the
\* controller is not done and the timeout has not elapsed.
WaitTick ==
    /\ segPc = "waiting"
    /\ baseBusy
    /\ segWaits[1] > 0
    /\ segWaited < segWaits[1]
    /\ segWaited' = segWaited + 1
    /\ SegwayCallUnchanged
    /\ UNCHANGED <<segPc, segResult, baseBusy>>
    /\ UNCHANGED <<simVars, execVars, driveVars, flagVars, retimeVars, moreVars>>

\* robot.WaitForController returns: the controller is done, or a positive
\* timeout has elapsed; WaitForController(0) has no timeout and returns
\* only when the controller is done.  The method then returns.
WaitForControllerReturns ==
    /\ segPc = "waiting"
    /\ \/ ~baseBusy
       \/ segWaits[1] > 0 /\ segWaited >= segWaits[1]
    /\ segPc' = "idle"
    /\ segResult' = "returned"
    /\ SegwayCallUnchanged
    /\ UNCHANGED <<baseBusy, segWaited>>
    /\ UNCHANGED <<simVars, execVars, driveVars, flagVars, retimeVars, moreVars>>

NextSegway ==
    \/ \E meters \in (-MaxMeters)..MaxMeters, to \in Optional(0..MaxWait) :
            DriveSegway(meters, to)
    \/ \E angle_rad \in (-MaxTurns)..MaxTurns, to \in Optional(0..MaxWait) :
            RotateSegway(angle_rad, to)
    \/ \E named_position \in named_positions :
            DriveSegwayToNamedPosition(named_position)
    \/ StopSegway
    \/ BaseCompletes
    \/ WaitTick
    \/ WaitForControllerReturns

(***************************************************************************)
(* Properties of the Segway methods                                        *)
(***************************************************************************)

\* C18: on a simulated base, a DriveSegway or RotateSegway call has, when it
\* returns, moved the pose (along the base's forward axis by the distance;
\* turned by the angle), and has sent nothing to the base controller and
\* waited for nothing, whatever the distance, the angle and the timeout.
C18_SimulatedMovesWithoutController ==
    (segway_sim /\ segOp \in {"DriveSegway", "RotateSegway"})
    => /\ segResult = "returned"
       /\ segCmds = <<>>
       /\ segWaits = <<>>
       /\ segOp = "DriveSegway" =>
            /\ \A i \in 1..2 : pose[i][4] = posePrev[i][4] + Val(segArg) * posePrev[i][1]
            /\ \A i \in 1..4, j \in 1..3 : pose[i][j] = posePrev[i][j]
       /\ segOp = "RotateSegway" =>
            /\ \A i \in 1..4 : pose[i][4] = posePrev[i][4]
            /\ \A i \in 1..2 :
                 /\ pose[i][1] = posePrev[i][1] * Cos(Val(segArg))
                                 + posePrev[i][2] * Sin(Val(segArg))
                 /\ pose[i][2] = posePrev[i][2] * Cos(Val(segArg))
                                 - posePrev[i][1] * Sin(Val(segArg))

\* C18 witness: a simulated base turned to face +y drove one unit with an
\* Unbounded timeout and is one unit further in y.
C18_Witness ==
    /\ segway_sim
    /\ segOp = "DriveSegway"
    /\ segArg = Some(1)
    /\ segTimeout = None
    /\ posePrev = PoseAt(0, 0, 1)
    /\ pose = PoseAt(0, 1, 1)

\* C19: on a simulated base, after RotateSegway(theta) followed by
\* RotateSegway(-theta) the pose is what it was before the two calls.
C19_RotateThenBackRestoresPose ==
    (/\ segway_sim
     /\ segOp = "RotateSegway"
     /\ prevRot # None
     /\ Val(segArg) = -Val(prevRot))
    => pose = pose2

\* C19 witness: a quarter turn and a quarter turn back, away from the
\* origin, with the pose in between a different one.
C19_Witness ==
    /\ segway_sim
    /\ segOp = "RotateSegway"
    /\ prevRot = Some(1)
    /\ segArg = Some(-1)
    /\ pose2 = PoseAt(1, -1, 3)
    /\ posePrev = PoseAt(1, -1, 0)
    /\ pose = pose2

\* C20 as claimed: on a simulated base, DriveSegwayToNamedPosition and
\* StopSegway return normally, send nothing to the base controller and
\* leave the pose as it was.
C20_SimulatedNamedAndStopAreNoOps ==
    (segway_sim /\ segOp \in {"DriveSegwayToNamedPosition", "StopSegway"})
    => /\ segResult = "returned"
       /\ segCmds = <<>>
       /\ pose = posePrev

\* A step that calls DriveSegway or RotateSegway: a step taken while no
\* call is in its wait, other than the base controller finishing, after
\* which one of the two is the last call.
SegwayMotionCall ==
    /\ segPc = "idle"
    /\ ~(baseBusy /\ ~baseBusy')
    /\ segOp' \in {"DriveSegway", "RotateSegway"}

\* C21: on a real base DriveSegway and RotateSegway send exactly one
\* command, "Drive <meters>" or "Rotate <angle>", and leave the pose alone;
\* then with timeout 0 the call returns without waiting, with a positive
\* timeout d it waits no longer than d, and with no timeout it returns
\* only when the base controller is done.
C21_RealModeCommandThenWait ==
    [][/\ (SegwayMotionCall /\ ~segway_sim)
          => /\ segCmds' = <<(IF segOp' = "DriveSegway" THEN "Drive "
                               ELSE "Rotate ") \o StrInt(Val(segArg'))>>
             /\ pose' = pose
             /\ baseBusy'
             /\ segTimeout' = Some(0)
                  => segPc' = "idle" /\ segResult' = "returned"
             /\ segTimeout' # Some(0)
                  => segPc' = "waiting" /\ segResult' = "none"
       /\ segPc = "waiting"
          => /\ segCmds' = segCmds
             /\ segTimeout # None => segWaited' <= Val(segTimeout)
             /\ (segTimeout # None /\ baseBusy /\ segWaited = Val(segTimeout))
                  => segPc' = "idle" \/ ~baseBusy'
             /\ (segPc' = "idle" /\ segTimeout = None) => ~baseBusy
             /\ (segPc' = "idle" /\ segTimeout # None)
                  => ~baseBusy \/ segWaited = Val(segTimeout)
             /\ segPc' = "idle" => segResult' = "returned"]_vars

\* C21 witness: a DriveSegway with a positive timeout returned on a real
\* base after the timeout elapsed, the base still executing its one
\* command.
C21_Witness ==
    /\ ~segway_sim
    /\ segOp = "DriveSegway"
    /\ segTimeout = Some(MaxWait)
    /\ segPc = "idle"
    /\ segResult = "returned"
    /\ segWaited = MaxWait
    /\ baseBusy
    /\ Len(segCmds) = 1

(***************************************************************************)
(* Overlapping ExecuteTrajectory calls                                     *)
(*                                                                         *)
(* ExecuteTrajectory takes no lock and keeps no "busy" flag: a second      *)
(* caller runs the same code on the same manipulators and controller       *)
(* while the first call is suspended in its wait.                          *)
(***************************************************************************)

\* The robots of this specification: the left arm simulated or real, the
\* right arm and the head simulated.
OverlapSimInit ==
    /\ left_arm_sim \in BOOLEAN
    /\ right_arm_sim = TRUE
    /\ head_sim = TRUE

OverlapInit ==
    /\ exec2Pc = "idle"
    /\ active2 = <<>>
    /\ timeout2 = "Unbounded"
    /\ running2 = {}
    /\ execLog2 = <<>>
    /\ execResult2 = "none"

\* The second call up to its wait: the same validation, status reset and
\* SetPath as the first, on the shared status.
SecondExecuteTrajectory(touched, to) ==
    LET active == GetTrajectoryManipulators(touched) IN
    /\ exec2Pc = "idle"
    /\ active2' = active
    /\ timeout2' = to
    /\ IF SyncRejected(active)
       THEN /\ execResult2' = "SynchronizationException"
            /\ execLog2' = <<>>
            /\ exec2Pc' = "done"
            /\ running2' = {}
            /\ UNCHANGED status
       ELSE /\ execResult2' = "none"
            /\ execLog2' = DispatchLog(active, FALSE, FALSE)
            /\ status' = SetPath(ClearTrajectoryStatus(status, active), active)
            /\ running2' = running_manipulators(active)
            /\ exec2Pc' = "waiting"
    /\ UNCHANGED <<execPc, active_manipulators, timeout, blend, retime,
                   running_controllers, stale_fault, is_done, execLog,
                   execResult, faultManip>>
    /\ UNCHANGED <<simVars, driveVars, flagVars, retimeVars, segVars, planVars>>

\* The second call's wait returns and it reads the status.
SecondFinish ==
    /\ exec2Pc = "waiting"
    /\ WaitCanReturn(running2, timeout2, status)
    /\ LET done == WaitForControllers(running2, timeout2, status)
           c == Completion(active2, done, status)
       IN  /\ execResult2' = c.result
           /\ execLog2' = execLog2 \o <<Ev("WaitForControllers", "none")>> \o c.log
    /\ exec2Pc' = "done"
    /\ UNCHANGED <<active2, timeout2, running2>>
    /\ UNCHANGED <<simVars, execVars, driveVars, flagVars, retimeVars, segVars,
                   planVars>>

SecondReturn ==
    /\ exec2Pc = "done"
    /\ exec2Pc' = "idle"
    /\ active2' = <<>>
    /\ timeout2' = "Unbounded"
    /\ running2' = {}
    /\ execLog2' = <<>>
    /\ execResult2' = "none"
    /\ UNCHANGED <<simVars, execVars, driveVars, flagVars, retimeVars, segVars,
                   planVars>>

\* Two callers of ExecuteTrajectory (neither blends nor retimes) and the
\* controllers.
NextOverlap ==
    \/ /\ execPc = "idle"
       /\ \E touched \in (SUBSET Manips) \ {{}}, to \in TimeoutValues :
               ExecuteTrajectory(touched, to, FALSE, FALSE)
    \/ ExecuteTrajectoryFinish
    \/ ExecuteTrajectoryReturn
    \/ /\ exec2Pc = "idle"
       /\ \E touched \in (SUBSET Manips) \ {{}}, to \in TimeoutValues :
               SecondExecuteTrajectory(touched, to)
    \/ SecondFinish
    \/ SecondReturn
    \/ \E m \in Manips, s \in {"done", "aborted", "stalled"} :
            ControllerStep(m, s)

\* C22: while one call is between its dispatch and the end of its status
\* read, a second call that touches one of the same manipulators does not
\* change that manipulator's status and hands no path to the controller.
C22_OverlappingCallRejected ==
    [][(/\ execPc = "waiting"
        /\ exec2Pc = "idle" /\ exec2Pc' # "idle"
        /\ Range(active2') \cap Range(active_manipulators) # {})
        => /\ \A m \in Range(active2') \cap Range(active_manipulators) :
                status'[m] = status[m]
           /\ ~HasEvent(execLog2', "SetPath")]_vars

(***************************************************************************)
(* Herb.PlanGeneric                                                        *)
(*                                                                         *)
(* The planners are collaborators: what the planning method of each one    *)
(* does for the call at hand is an input.                                  *)
(***************************************************************************)

\* The longest robot.planners list explored.
MaxPlanners == 3

\* What getattr(delegate_planner, command_name)(...) can do: return a
\* trajectory, return None, raise one of the two planning errors, or raise
\* anything else.
PlannerOutcomes ==
    {"traj", "None", "UnsupportedPlanningError", "PlanningError", "Exception"}

\* The exceptions the loop catches.
PlanningFailures == {"UnsupportedPlanningError", "PlanningError"}

PlannerLists ==
    UNION {[1..n -> PlannerOutcomes] : n \in 0..MaxPlanners}

\* The message of the PlanningError PlanGeneric raises itself.
AllPlannersFailed == "PlanningError: Planning failed with all planners."

PlanInit ==
    /\ planPc = "idle"
    /\ planners = <<>>
    /\ planExecute = None
    /\ invoked = <<>>
    /\ planResult = "none"
    /\ planExecuted = FALSE

\* The loop with only UnsupportedPlanningError caught.
RECURSIVE PlannerLoop_PlanningErrorEscapes(_, _)
PlannerLoop_PlanningErrorEscapes(ps, i) ==
    IF i > Len(ps)
    THEN [traj |-> None, invoked |-> <<>>, raised |-> "none"]
    ELSE IF ps[i] = "traj"
    THEN [traj |-> Some("traj"), invoked |-> <<i>>, raised |-> "none"]
    ELSE IF ps[i] = "None"
    THEN [traj |-> None, invoked |-> <<i>>, raised |-> "none"]
    ELSE IF ps[i] = "UnsupportedPlanningError"
    THEN LET r == PlannerLoop_PlanningErrorEscapes(ps, i + 1)
         IN  [r EXCEPT !.invoked = <<i>> \o @]
    ELSE [traj |-> None, invoked |-> <<i>>, raised |-> ps[i]]

\* "for delegate_planner in robot.planners", from the i-th planner on: the
\* planning method is called; a result ends the loop (break), the two
\* planning errors are logged and the loop goes on, any other exception
\* leaves PlanGeneric.
RECURSIVE PlannerLoop(_, _)
PlannerLoop(ps, i) ==
    IF i > Len(ps)
    THEN [traj |-> None, invoked |-> <<>>, raised |-> "none"]
    ELSE IF ps[i] = "traj"
    THEN [traj |-> Some("traj"), invoked |-> <<i>>, raised |-> "none"]
    ELSE IF ps[i] = "None"
    THEN [traj |-> None, invoked |-> <<i>>, raised |-> "none"]
    ELSE IF ps[i] \in PlanningFailures
    THEN LET r == PlannerLoop(ps, i + 1)
         IN  [r EXCEPT !.invoked = <<i>> \o @]
    ELSE [traj |-> None, invoked |-> <<i>>, raised |-> ps[i]]

\* "if 'execute' not in kw_args or kw_args['execute']"
ExecuteRequested(ex) == ex = None \/ Val(ex)

\* What PlanGeneric ends with after the loop.
PlanGenericResult(l, ex) ==
    IF l.raised # "none"
    THEN [result |-> l.raised, executed |-> FALSE]
    ELSE IF l.traj = None
    THEN [result |-> AllPlannersFailed, executed |-> FALSE]
    ELSE IF ExecuteRequested(ex)
    THEN [result |-> "ExecuteTrajectory", executed |-> TRUE]
    ELSE [result |-> "traj", executed |-> FALSE]

PlanGeneric(ps, ex) ==
    /\ planPc = "idle"
    /\ planners' = ps
    /\ planExecute' = ex
    /\ LET l == PlannerLoop(ps, 1)
           r == PlanGenericResult(l, ex)
       IN  /\ invoked' = l.invoked
           /\ planResult' = r.result
           /\ planExecuted' = r.executed
    /\ planPc' = "done"
    /\ UNCHANGED <<simVars, execVars, driveVars, flagVars, retimeVars, segVars,
                   overVars>>

PlanReturn ==
    /\ planPc = "done"
    /\ planPc' = "idle"
    /\ planners' = <<>>
    /\ planExecute' = None
    /\ invoked' = <<>>
    /\ planResult' = "none"
    /\ planExecuted' = FALSE
    /\ UNCHANGED <<simVars, execVars, driveVars, flagVars, retimeVars, segVars,
                   overVars>>

NextPlan ==
    \/ /\ planPc = "idle"
       /\ \E ps \in PlannerLists, ex \in Optional(BOOLEAN) : PlanGeneric(ps, ex)
    \/ PlanReturn

\* The planners up to and including the first that does not raise a
\* planning error; all of them when every planner does.
TriedPlanners(ps) ==
    LET ok == {i \in 1..Len(ps) : ps[i] \notin PlanningFailures}
    IN  IF ok = {} THEN [i \in 1..Len(ps) |-> i]
        ELSE [i \in 1..(CHOOSE k \in ok : \A j \in ok : k <= j) |-> i]

\* C28: PlanGeneric calls the planners in list order and stops at the first
\* that returns a trajectory, calling none after it; a PlanningError or
\* UnsupportedPlanningError of a planner never leaves PlanGeneric; when
\* every planner fails PlanGeneric raises its own PlanningError and does
\* not call ExecuteTrajectory.
C28_PlannersTriedInOrder ==
    planPc = "done" =>
        /\ invoked = TriedPlanners(planners)
        /\ planResult \notin PlanningFailures
        /\ (\A i \in 1..Len(planners) : planners[i] \in PlanningFailures)
              => planResult = AllPlannersFailed /\ ~planExecuted
        /\ (invoked # <<>> /\ planners[invoked[Len(invoked)]] = "traj")
              => /\ planResult \in {"ExecuteTrajectory", "traj"}
                 /\ planExecuted = ExecuteRequested(planExecute)
        /\ planExecuted
              => invoked # <<>> /\ planners[invoked[Len(invoked)]] = "traj"

\* C28 witness: the first planner raised PlanningError, the second
\* returned a trajectory, the third was never called, and the trajectory
\* was executed.
C28_Witness ==
    /\ planPc = "done"
    /\ planners = <<"PlanningError", "traj", "traj">>
    /\ invoked = <<1, 2>>
    /\ planExecuted
    /\ planResult = "ExecuteTrajectory"

(***************************************************************************)
(* Specifications                                                          *)
(***************************************************************************)

InitExec == ArmSimInit /\ BaseSimDefault /\ RetimerInit /\ ExecInit /\ DriveInit /\ FlagsInit
            /\ RetimeInit /\ OverlapInit /\ PlanInit /\ SegwayDefault

SpecExec == InitExec /\ [][NextExec]_vars

InitDrive == BaseSimInit /\ ArmSimDefault /\ RetimerDefault /\ ExecInit /\ DriveInit /\ FlagsInit
            /\ RetimeInit /\ OverlapInit /\ PlanInit /\ SegwayDefault

SpecDrive == InitDrive /\ [][NextDrive]_vars

InitFlags == ArmSimDefault /\ BaseSimDefault /\ RetimerDefault /\ ExecInit /\ DriveInit /\ FlagsInit
            /\ RetimeInit /\ OverlapInit /\ PlanInit /\ SegwayDefault

SpecFlags == InitFlags /\ [][NextFlags]_vars

InitSegway == SegwaySimInit /\ ArmSimDefault /\ RetimerDefault /\ ExecInit /\ DriveInit
            /\ FlagsInit /\ RetimeInit /\ OverlapInit /\ PlanInit /\ SegwayInit

SpecSegway == InitSegway /\ [][NextSegway]_vars

InitRetime == ArmSimDefault /\ BaseSimDefault /\ RetimerInit /\ ExecInit /\ DriveInit
            /\ FlagsInit /\ RetimeInit /\ OverlapInit /\ PlanInit /\ SegwayDefault

SpecRetime == InitRetime /\ [][NextRetime]_vars

InitOverlap == OverlapSimInit /\ BaseSimDefault /\ RetimerDefault /\ ExecInit /\ DriveInit
               /\ FlagsInit /\ RetimeInit /\ OverlapInit /\ PlanInit /\ SegwayDefault

SpecOverlap == InitOverlap /\ [][NextOverlap]_vars

InitPlan == ArmSimDefault /\ BaseSimDefault /\ RetimerDefault /\ ExecInit /\ DriveInit
            /\ FlagsInit /\ RetimeInit /\ OverlapInit /\ PlanInit /\ SegwayDefault

SpecPlan == InitPlan /\ [][NextPlan]_vars

\* The loop of DriveStraightUntilForce is a busy "while True": iterations
\* keep coming, and an exit condition that holds is met by one of them.
InitDriveFair ==
    /\ segway_sim \in BOOLEAN /\ left_ft_sim \in BOOLEAN /\ right_ft_sim = FALSE
    /\ ArmSimDefault /\ RetimerDefault /\ ExecInit /\ DriveInit /\ FlagsInit
    /\ RetimeInit /\ OverlapInit /\ PlanInit /\ SegwayDefault

SpecDriveFair ==
    InitDriveFair /\ [][NextDriveFair]_vars
    /\ WF_vars(DriveIteration) /\ WF_vars(ExitingIteration)

====
